---- MODULE Spec2Model ----
(***************************************************************************)
(* Model of ipmi-fan-control: the PID controller (pid.py), the monitoring  *)
(* loop of the two fan controllers (ipmitool.py, ipmi.py) and the shutdown *)
(* path of the command line (cli.py).                                      *)
(*                                                                         *)
(* Numbers.  The program computes in Python floats.  The model computes in *)
(* fixed point: a temperature, a fan percentage, a gain is an integer      *)
(* count of 1/Scale units (61.0 degrees is 61000), and every product or    *)
(* quotient is rounded to the nearest unit where the float is rounded to   *)
(* the nearest double.  Times are whole seconds.                           *)
(***************************************************************************)
EXTENDS Integers, Sequences, FiniteSets, TLC

VARIABLES
    clock,      \* time.time(), in seconds since the construction
    pid,        \* the PIDController object: a record of its fields
    lastOp,     \* history: the PIDController operation called last
    lastArg,    \* history: (min, max) of set_output_limits, the branch compute took
    ret,        \* history: the value the last compute() returned
    impl,       \* "ipmitool": DellIPMIToolFanController, "pyipmi": DellIPMIFanController
    ctl,        \* the fan controller object: a record of its fields
    threads,    \* the monitoring threads start_temperature_monitoring has spawned
    fg,         \* the foreground caller of start/stop_temperature_monitoring
    hw,         \* the BMC: the fan mode and speed the commands have set
    faults,     \* the hardware failures still to come in this run
    cli         \* the process running the 'pid' command (cli.py)

pidVars == <<clock, pid, lastOp, lastArg, ret>>

monVars == <<impl, ctl, threads, fg, hw, faults, cli>>

vars ==
    <<clock, pid, lastOp, lastArg, ret, impl, ctl, threads, fg, hw, faults, cli>>

----------------------------------------------------------------------------
(* Fixed point arithmetic *)

Scale == 10 * 100

\* a / b rounded to the nearest integer, halves away from zero (b > 0)
Round(a, b) ==
    IF a >= 0 THEN (2 * a + b) \div (2 * b)
    ELSE -((2 * (-a) + b) \div (2 * b))

Abs(x) == IF x < 0 THEN -x ELSE x

Min(a, b) == IF a < b THEN a ELSE b

Max(a, b) == IF a > b THEN a ELSE b

\* x * y of two fixed point numbers
Mul(x, y) == Round(x * y, Scale)

----------------------------------------------------------------------------
(* Bounds and input sets *)

\* the clock stops at MaxTime
MaxTime == 1

\* input temperatures: 0.5 below and 1 above the setpoint 60, and more than
\* 15 above the constructor's setpoint 0
Temps == {59 * Scale + 500, 61 * Scale}

\* (kp, ki, kd): the constructor's defaults, the integral-only tuning of
\* test_integration_over_time, the defaults of configure_pid
Tunings == {<<100, 20, 10>>, <<0, 100, 0>>}

\* (output_min, output_max) arguments; the last one has min > max
LimitArgs == {<<30 * Scale, 100 * Scale>>, <<40 * Scale, 80 * Scale>>,
              <<80 * Scale, 40 * Scale>>}

Setpoints == {60 * Scale}

\* sample_time arguments in seconds (the default is 1); 0 and -1 are rejected
SampleTimeArgs == {-1, 0, 2}

\* an optional argument: None when omitted, Some(x) when given
None == <<>>

Some(x) == <<x>>

----------------------------------------------------------------------------
(* pid.py: class PIDController *)

\* PIDController(kp, ki, kd, output_min, output_max, sample_time),
\* constructed at time now
PIDControllerNew(kp, ki, kd, output_min, output_max, sample_time, now) ==
    [kp |-> kp, ki |-> ki, kd |-> kd,
     output_min |-> output_min, output_max |-> output_max,
     sample_time |-> sample_time,
     setpoint |-> 0, last_error |-> 0, integral |-> 0, last_input |-> 0,
     last_output |-> 0, last_time |-> now,
     auto_mode |-> FALSE, initialized |-> FALSE]

\* PIDController() with the default arguments, constructed at time 0
PIDController ==
    PIDControllerNew(100, 20, 10, 30 * Scale, 100 * Scale, 1, 0)

set_tunings(p, kp, ki, kd) == [p EXCEPT !.kp = kp, !.ki = ki, !.kd = kd]

\* max(min(x, hi), lo)
clamp(x, lo, hi) == Max(Min(x, hi), lo)

\* set_output_limits without the min > max check
set_output_limits_unchecked(p, output_min, output_max) ==
    LET q == [p EXCEPT !.output_min = output_min, !.output_max = output_max]
    IN  IF q.auto_mode
        THEN [q EXCEPT !.integral = clamp(q.integral, output_min, output_max)]
        ELSE q

set_output_limits(p, output_min, output_max) ==
    IF output_min > output_max THEN p
    ELSE LET q == [p EXCEPT !.output_min = output_min,
                            !.output_max = output_max]
         IN  IF q.auto_mode
             THEN [q EXCEPT !.integral =
                                clamp(q.integral, q.output_min, q.output_max)]
             ELSE q

set_setpoint(p, setpoint) == [p EXCEPT !.setpoint = setpoint]

\* set_sample_time storing a sample time that is not positive
set_sample_time_unchecked(p, sample_time) ==
    IF sample_time > 0
    THEN [p EXCEPT !.ki = Round(p.ki * sample_time, p.sample_time),
                   !.kd = Round(p.kd * p.sample_time, sample_time),
                   !.sample_time = sample_time]
    ELSE [p EXCEPT !.sample_time = sample_time]

\* ratio = sample_time / self.sample_time; ki *= ratio; kd /= ratio
set_sample_time(p, sample_time) ==
    IF sample_time > 0
    THEN [p EXCEPT !.ki = Round(p.ki * sample_time, p.sample_time),
                   !.kd = Round(p.kd * p.sample_time, sample_time),
                   !.sample_time = sample_time]
    ELSE p

initialize(p) ==
    [p EXCEPT !.last_error = 0, !.integral = 0, !.last_input = 0,
              !.initialized = FALSE]

\* set_auto_mode initializing at every call with auto_mode True
set_auto_mode_always_reset(p, auto_mode, current_input) ==
    LET q == IF auto_mode
             THEN IF current_input # None
                  THEN [initialize(p) EXCEPT !.last_input = current_input[1],
                                             !.integral = p.last_output]
                  ELSE initialize(p)
             ELSE p
    IN  [q EXCEPT !.auto_mode = auto_mode]

\* current_input is None when the argument is omitted
set_auto_mode(p, auto_mode, current_input) ==
    LET q == IF auto_mode /\ ~p.auto_mode
             THEN IF current_input # None
                  THEN [initialize(p) EXCEPT !.last_input = current_input[1],
                                             !.integral = p.last_output]
                  ELSE initialize(p)
             ELSE p
    IN  [q EXCEPT !.auto_mode = auto_mode]

\* the ramp between 0 and 5 degrees falling instead of rising
calculate_base_response_falling(p, error) ==
    IF error <= -Scale THEN p.output_min
    ELSE IF error < 0
    THEN p.output_min + Mul(error + Scale, 40 * Scale - p.output_min)
    ELSE IF error <= 5 * Scale
    THEN 40 * Scale - Mul(Round(error, 5), 35 * Scale)
    ELSE LET capped_error == Min(error - 5 * Scale, 10 * Scale)
             t == Round(capped_error, 10)
             t_squared == Mul(t, t)
         IN  75 * Scale + Mul(t_squared, p.output_max - 75 * Scale)

calculate_base_response(p, error) ==
    IF error <= -Scale THEN p.output_min
    ELSE IF error < 0
    THEN p.output_min + Mul(error + Scale, 40 * Scale - p.output_min)
    ELSE IF error <= 5 * Scale
    THEN 40 * Scale + Mul(Round(error, 5), 35 * Scale)
    ELSE LET capped_error == Min(error - 5 * Scale, 10 * Scale)
             t == Round(capped_error, 10)
             t_squared == Mul(t, t)
         IN  75 * Scale + Mul(t_squared, p.output_max - 75 * Scale)

\* the first calculation without the cap of the error at 15 degrees
first_output_uncapped(p, error) ==
    IF error > 0
    THEN 35 * Scale + Mul(Round(error, 15), 25 * Scale)
    ELSE p.output_min

\* the first calculation after entering auto mode (initialized is False)
first_output(p, error) ==
    IF error > 0
    THEN 35 * Scale + Mul(Round(Min(error, 15 * Scale), 15), 25 * Scale)
    ELSE p.output_min

\* the integral update without the anti-windup clamp
integral_unclamped(p, error, time_change) ==
    LET integral_scale == IF Abs(error) > 8 * Scale THEN 3 ELSE 10
    IN  p.integral + Round(p.ki * error * time_change * integral_scale,
                           Scale * 10)

\* the integral term after one update, with anti-windup
integral_update(p, error, time_change) ==
    LET integral_scale == IF Abs(error) > 8 * Scale THEN 3 ELSE 10
    IN  clamp(p.integral + Round(p.ki * error * time_change * integral_scale,
                                 Scale * 10),
              p.output_min, p.output_max)

\* no rate limiting
rate_limit_off(p, output, error, time_change) == output

\* output moved at most max_change away from last_output
rate_limit(p, output, error, time_change) ==
    LET max_change_per_second == 5 * Scale
        full == max_change_per_second * time_change
        max_change == IF Abs(error) < 2 * Scale THEN Round(full, 2) ELSE full
    IN  IF Abs(output - p.last_output) > max_change
        THEN IF output > p.last_output
             THEN p.last_output + max_change
             ELSE p.last_output - max_change
        ELSE output

\* the manual branch recording the input
compute_manual_tracking(p, input_val, now) ==
    [pid |-> [p EXCEPT !.last_input = input_val], out |-> 0,
     branch |-> "manual"]

\* if not self.auto_mode: return 0.0
compute_manual(p, input_val, now) ==
    [pid |-> p, out |-> 0, branch |-> "manual"]

\* the skip branch recording the input
compute_skip_tracking(p, input_val, now) ==
    [pid |-> [p EXCEPT !.last_input = input_val], out |-> p.last_output,
     branch |-> "skip"]

\* if time_change < self.sample_time and self.initialized:
\*     return self.last_output
compute_skip(p, input_val, now) ==
    [pid |-> p, out |-> p.last_output, branch |-> "skip"]

\* compute(input_val, now): the new object, the returned value and the
\* branch taken (manual: not in auto mode; skip: called again within
\* sample_time; first: first calculation; recompute: the regular update)
compute(p, input_val, now) ==
    IF ~p.auto_mode THEN compute_manual(p, input_val, now)
    ELSE
    LET time_change == now - p.last_time
        error == input_val - p.setpoint
    IN  IF time_change < p.sample_time /\ p.initialized
        THEN compute_skip(p, input_val, now)
        ELSE IF ~p.initialized
        THEN LET initial_output == first_output(p, error)
             IN  [pid |-> [p EXCEPT !.last_output = initial_output,
                                    !.integral = Round(initial_output * 3, 10),
                                    !.last_error = error,
                                    !.last_input = input_val,
                                    !.last_time = now,
                                    !.initialized = TRUE],
                  out |-> initial_output, branch |-> "first"]
        ELSE LET derivative ==
                     Round((input_val - p.last_input) * Scale,
                           time_change * Scale)
                 integral == integral_update(p, error, time_change)
                 base_output == calculate_base_response(p, error)
                 pid_component ==
                     Mul(p.kp, error) + Mul(p.kd, derivative) + integral
                 blend_factor == Min(Round(Abs(error), 5), Scale)
                 blended == Mul(base_output, Scale - blend_factor)
                            + Mul(pid_component, blend_factor)
                 limited == clamp(blended, p.output_min, p.output_max)
                 output == rate_limit(p, limited, error, time_change)
             IN  [pid |-> [p EXCEPT !.integral = integral,
                                    !.last_error = error,
                                    !.last_input = input_val,
                                    !.last_output = output,
                                    !.last_time = now],
                  out |-> output, branch |-> "recompute"]

----------------------------------------------------------------------------
(* ipmitool.py: class DellIPMIToolFanController                            *)
(* ipmi.py:     class DellIPMIFanController                                *)

\* the monitoring threads one run of the model spawns
MaxThreads == 2

\* the hardware failures of one run of a single monitoring loop
MaxFaults == 4

\* the hardware failures of one run with restarts
MonFaults == 1

\* the signals one run of the 'pid' command receives
MaxSignals == 2

ThreadIds == DOMAIN threads

\* max_consecutive_errors of the ipmitool monitoring loop
max_consecutive_errors == 3

\* the fan percentage of the safety measure
SafetySpeed == 70

\* the seconds stop_temperature_monitoring waits for the thread
JoinTimeout == 2

\* the temperature get_highest_temperature falls back to (ipmitool)
DefaultTemp == 60

\* the temperatures the sensors report
MonTemps == {61 * Scale}

\* target_temp arguments of start_temperature_monitoring
TargetArgs == {None, Some(60 * Scale)}

\* interval arguments of start_temperature_monitoring, in seconds
IntervalArgs == {None, Some(1)}

\* a Python number: an int or a float of value val
PyInt(v) == [val |-> v, is_float |-> FALSE]

PyFloat(v) == [val |-> v, is_float |-> TRUE]

\* int(x): truncation toward zero
int(x) ==
    IF x >= 0 THEN PyInt((x \div Scale) * Scale)
    ELSE PyInt(-(((-x) \div Scale) * Scale))

\* min(a, b) and max(a, b) of Python: the first argument unless the second
\* is strictly smaller (larger)
py_min(a, b) == IF b.val < a.val THEN b ELSE a

py_max(a, b) == IF b.val > a.val THEN b ELSE a

\* the controller object after __init__ (verify = False)
FanController ==
    [monitoring |-> FALSE, monitor_thread |-> 0, temp_callback |-> FALSE,
     target_temp |-> 60 * Scale, monitor_interval |-> 30,
     connected |-> FALSE]

\* a thread slot that start_temperature_monitoring has not used yet; the
\* fields are the locals of _temperature_monitor_loop (callback: whether
\* the callback argument is given), call is the
\* set_fan_speed call in progress ("loop" or "safety"), safety_calls counts
\* the set_fan_speed(70) calls of the current run of failed iterations
NoThread ==
    [pc |-> "none", consecutive_errors |-> 0, current_temp |-> 0,
     fan_speed |-> PyInt(0), call |-> "loop", callback |-> FALSE,
     safety_calls |-> 0]

\* the fans under the BMC's automatic control; restores counts the
\* restore-automatic-control commands the BMC has been sent
Bmc == [mode |-> "auto", speed |-> 0, restores |-> 0]

\* no call of start/stop in progress; raised: the last call raised
Foreground == [pc |-> "idle", raised |-> FALSE]

\* no 'pid' command running
NoCli == [pc |-> "none", auto_restore |-> TRUE, signals |-> 0]

\* the controller constructed, n thread slots, f hardware failures to come
MonIdle(n, f) ==
    /\ ctl = FanController
    /\ threads = [t \in 1 .. n |-> NoThread]
    /\ fg = Foreground
    /\ hw = Bmc
    /\ faults = f
    /\ cli = NoCli

----------------------------------------------------------------------------
(* The PIDController driven through its public operations *)

Init ==
    /\ clock = 0
    /\ pid = PIDController
    /\ lastOp = "init"
    /\ lastArg = <<>>
    /\ ret = 0
    /\ impl = "ipmitool"
    /\ MonIdle(1, 0)

SetTunings ==
    \E t \in Tunings :
        /\ pid' = set_tunings(pid, t[1], t[2], t[3])
        /\ lastOp' = "set_tunings"
        /\ lastArg' = <<>>
        /\ UNCHANGED <<clock, ret, monVars>>

SetOutputLimits ==
    \E l \in LimitArgs :
        /\ pid' = set_output_limits(pid, l[1], l[2])
        /\ lastOp' = "set_output_limits"
        /\ lastArg' = l
        /\ UNCHANGED <<clock, ret, monVars>>

SetSetpoint ==
    \E s \in Setpoints :
        /\ pid' = set_setpoint(pid, s)
        /\ lastOp' = "set_setpoint"
        /\ lastArg' = <<>>
        /\ UNCHANGED <<clock, ret, monVars>>

\* set_sample_time(s)
SetSampleTimeOn(s) ==
    /\ pid' = set_sample_time(pid, s)
    /\ lastOp' = "set_sample_time"
    /\ lastArg' = <<>>
    /\ UNCHANGED <<clock, ret, monVars>>

SetSampleTime == \E s \in SampleTimeArgs : SetSampleTimeOn(s)

\* the current_input arguments of set_auto_mode
AutoModeInputs == {None} \cup {Some(t) : t \in Temps}

\* set_auto_mode(a, x)
SetAutoModeOn(a, x) ==
    /\ pid' = set_auto_mode(pid, a, x)
    /\ lastOp' = "set_auto_mode"
    /\ lastArg' = <<>>
    /\ UNCHANGED <<clock, ret, monVars>>

SetAutoMode == \E a \in BOOLEAN, x \in AutoModeInputs : SetAutoModeOn(a, x)

Initialize ==
    /\ pid' = initialize(pid)
    /\ lastOp' = "initialize"
    /\ lastArg' = <<>>
    /\ UNCHANGED <<clock, ret, monVars>>

\* compute(x) with now omitted: now = time.time()
ComputeOn(x) ==
    LET r == compute(pid, x, clock)
    IN  /\ pid' = r.pid
        /\ ret' = r.out
        /\ lastOp' = "compute"
        /\ lastArg' = <<r.branch>>
        /\ UNCHANGED clock
        /\ UNCHANGED monVars

Compute == \E x \in Temps : ComputeOn(x)

\* a second passes
Tick ==
    /\ clock < MaxTime
    /\ clock' = clock + 1
    /\ UNCHANGED <<pid, lastOp, lastArg, ret, monVars>>

Next ==
    \/ SetTunings
    \/ SetOutputLimits
    \/ SetSetpoint
    \/ SetSampleTime
    \/ SetAutoMode
    \/ Initialize
    \/ Compute
    \/ Tick

Spec == Init /\ [][Next]_vars

----------------------------------------------------------------------------
(* The scenario of test_integration_over_time: an integral-only controller  *)
(* (kp = kd = 0), put in auto mode, then compute() with one constant input  *)
(* above the setpoint, the calls exactly sample_time apart.                 *)

\* the clock of the scenario stops at MaxIntTime: 1 + MaxIntTime calls
MaxIntTime == 3

IntKis == {20, 100, 5 * Scale}

IntLimits == {<<30 * Scale, 100 * Scale>>, <<40 * Scale, 80 * Scale>>,
              <<0, 100 * Scale>>}

\* errors 0.5, 1, 2, 3, 4, 5, 10, 20 above the setpoint 60
IntTemps == {60 * Scale + 500, 61 * Scale, 62 * Scale, 63 * Scale,
             64 * Scale, 65 * Scale, 70 * Scale, 80 * Scale}

IntInit ==
    /\ clock = 0
    /\ \E ki \in IntKis, l \in IntLimits :
           pid = PIDControllerNew(0, ki, 0, l[1], l[2], 1, 0)
    /\ lastOp = "init"
    /\ lastArg = <<>>
    /\ ret = 0
    /\ impl = "ipmitool"
    /\ MonIdle(1, 0)

IntSetpoint ==
    /\ lastOp = "init"
    /\ SetSetpoint

IntAutoMode ==
    /\ lastOp = "set_setpoint"
    /\ SetAutoMode
    /\ pid'.auto_mode

IntFirstCompute ==
    /\ lastOp = "set_auto_mode"
    /\ \E x \in IntTemps : ComputeOn(x)

\* the next call: the same input, sample_time after the previous call
IntNextCompute ==
    /\ lastOp = "compute"
    /\ clock = pid.last_time + pid.sample_time
    /\ ComputeOn(pid.last_input)

IntTick ==
    /\ lastOp = "compute"
    /\ clock < pid.last_time + pid.sample_time
    /\ clock < MaxIntTime
    /\ clock' = clock + 1
    /\ UNCHANGED <<pid, lastOp, lastArg, ret, monVars>>

IntNext ==
    \/ IntSetpoint
    \/ IntAutoMode
    \/ IntFirstCompute
    \/ IntNextCompute
    \/ IntTick

SpecIntegration == IntInit /\ [][IntNext]_vars

----------------------------------------------------------------------------
(* The monitoring loop: _temperature_monitor_loop of both controllers, one  *)
(* step per call it makes.  A thread's pc is the call it is about to make:  *)
(*   top       while self.monitoring                                        *)
(*   read      get_highest_temperature()                                    *)
(*   compute   self.pid.compute(current_temp) and the speed validation      *)
(*   set       set_fan_speed: the range check and the manual-mode command   *)
(*   speed     set_fan_speed: the conversion and the set-speed command      *)
(*   callback  callback(status)                                             *)
(*   sleep     time.sleep(self.monitor_interval)                            *)
(*   except    the except clause                                            *)
(*   backoff   the sleep of the except clause                               *)
(*   done      the loop has exited                                          *)

Alive(t) == threads[t].pc \notin {"none", "done"}

\* a command sent to the BMC (a sensor read, a connection test) fails
Fault == faults > 0 /\ faults' = faults - 1

NoFault == faults' = faults

\* k of the commands of one step fail
Faults(k) == faults >= k /\ faults' = faults - k

Count(b) == IF b THEN 1 ELSE 0

\* what get_highest_temperature returns when no sensor can be read:
\* ipmitool falls back to 60.0, pyipmi returns 0.0 for an empty sensor list
fallback_temp == IF impl = "ipmitool" THEN DefaultTemp * Scale ELSE 0

\* the locals that the next iteration assigns before it reads them
forget(th) ==
    [th EXCEPT !.current_temp = 0, !.fan_speed = PyInt(0), !.call = "loop"]

\* the argument of the set_fan_speed call thread t is in
percentage(t) ==
    IF threads[t].call = "safety" THEN PyInt(SafetySpeed * Scale)
    ELSE threads[t].fan_speed

\* set_fan_speed has returned: on to the callback, or (the safety call) to
\* the sleep of the except clause
set_returned(th) ==
    IF th.call = "safety" THEN [forget(th) EXCEPT !.pc = "backoff"]
    ELSE [th EXCEPT !.pc = "callback"]

\* the safety call outside its try/except pass: what it raises ends the thread
set_raised_uncaught(th) ==
    IF th.call = "safety" THEN [NoThread EXCEPT !.pc = "done"]
    ELSE [forget(th) EXCEPT !.pc = "except"]

\* set_fan_speed has raised: on to the except clause, or (the safety call,
\* inside try/except pass) to the sleep of the except clause
set_raised(th) ==
    IF th.call = "safety" THEN [forget(th) EXCEPT !.pc = "backoff"]
    ELSE [forget(th) EXCEPT !.pc = "except"]

\* a loop top that goes on to the next iteration without reading the flag
LoopCheckIgnoresFlag ==
    \E t \in ThreadIds :
        /\ threads[t].pc = "top"
        /\ cli.pc # "exited"
        /\ threads' = [threads EXCEPT ![t].pc = "read"]
        /\ UNCHANGED <<pidVars, impl, ctl, fg, hw, faults, cli>>

\* while self.monitoring:
LoopCheck ==
    \E t \in ThreadIds :
        /\ threads[t].pc = "top"
        /\ cli.pc # "exited"
        /\ threads' = [threads EXCEPT ![t] =
                           IF ctl.monitoring THEN [@ EXCEPT !.pc = "read"]
                           ELSE [NoThread EXCEPT !.pc = "done"]]
        /\ UNCHANGED <<pidVars, impl, ctl, fg, hw, faults, cli>>

\* current_temp = self.get_highest_temperature()
\* ipmitool: a failed or empty sensor read gives 60.0; pyipmi: an empty read
\* gives 0.0 and a failed read raises
LoopRead ==
    \E t \in ThreadIds :
        /\ threads[t].pc = "read"
        /\ cli.pc # "exited"
        /\ \/ \E x \in MonTemps :
                  /\ NoFault
                  /\ threads' = [threads EXCEPT ![t].current_temp = x,
                                                ![t].pc = "compute"]
           \/ /\ Fault
              /\ threads' = [threads EXCEPT ![t].current_temp = fallback_temp,
                                            ![t].pc = "compute"]
           \/ /\ impl = "pyipmi"
              /\ Fault
              /\ threads' = [threads EXCEPT ![t].pc = "except"]
        /\ UNCHANGED <<pidVars, impl, ctl, fg, hw, cli>>

\* the fan speed of an iteration from the value compute() returned
\* ipmitool: max(min(int(computed_speed), output_max), output_min)
\* pyipmi:   int(computed_speed)
validated_speed(computed_speed, p) ==
    IF impl = "ipmitool"
    THEN py_max(py_min(int(computed_speed), PyFloat(p.output_max)),
                PyFloat(p.output_min))
    ELSE int(computed_speed)

\* computed_speed = self.pid.compute(current_temp); fan_speed = ...
LoopCompute ==
    \E t \in ThreadIds :
        /\ threads[t].pc = "compute"
        /\ cli.pc # "exited"
        /\ LET r == compute(pid, threads[t].current_temp, clock)
           IN  /\ pid' = r.pid
               /\ threads' = [threads EXCEPT
                      ![t].fan_speed = validated_speed(r.out, r.pid),
                      ![t].call = "loop",
                      ![t].pc = "set"]
        /\ UNCHANGED <<clock, lastOp, lastArg, ret, impl, ctl, fg, hw, faults, cli>>

\* set_fan_speed(percentage), first half: the range check raises ValueError,
\* then _set_manual_mode() sends the manual-mode command, which may fail
LoopSetManual ==
    \E t \in ThreadIds :
        /\ threads[t].pc = "set"
        /\ cli.pc # "exited"
        /\ IF percentage(t).val < 0 \/ percentage(t).val > 100 * Scale
           THEN /\ NoFault
                /\ threads' = [threads EXCEPT ![t] = set_raised(@)]
                /\ hw' = hw
           ELSE \/ /\ NoFault
                   /\ hw' = [hw EXCEPT !.mode = "manual"]
                   /\ threads' = [threads EXCEPT ![t].pc = "speed"]
                \/ /\ Fault
                   /\ hw' = hw
                   /\ threads' = [threads EXCEPT ![t] = set_raised(@)]
        /\ UNCHANGED <<pidVars, impl, ctl, fg, cli>>

\* set_fan_speed(percentage), second half: ipmitool formats the percentage
\* as hex, which raises for a float; then the set-speed command, which may fail
LoopSetSpeed ==
    \E t \in ThreadIds :
        /\ threads[t].pc = "speed"
        /\ cli.pc # "exited"
        /\ IF impl = "ipmitool" /\ percentage(t).is_float
           THEN /\ NoFault
                /\ threads' = [threads EXCEPT ![t] = set_raised(@)]
                /\ hw' = hw
           ELSE \/ /\ NoFault
                   /\ hw' = [hw EXCEPT !.speed = percentage(t).val]
                   /\ threads' = [threads EXCEPT ![t] = set_returned(@)]
                \/ /\ Fault
                   /\ hw' = hw
                   /\ threads' = [threads EXCEPT ![t] = set_raised(@)]
        /\ UNCHANGED <<pidVars, impl, ctl, fg, cli>>

\* the callback outside its try/except: what it raises fails the iteration
\* in both controllers
LoopCallbackUnprotected ==
    \E t \in ThreadIds :
        /\ threads[t].pc = "callback"
        /\ cli.pc # "exited"
        /\ \/ threads' = [threads EXCEPT ![t] =
                              [forget(@) EXCEPT !.consecutive_errors = 0,
                                                !.safety_calls = 0,
                                                !.pc = "sleep"]]
           \/ /\ threads[t].callback
              /\ threads' = [threads EXCEPT ![t] =
                                 [forget(@) EXCEPT !.pc = "except"]]
        /\ UNCHANGED <<pidVars, impl, ctl, fg, hw, faults, cli>>

\* if callback: callback(status); ipmitool swallows what the callback raises
\* and resets consecutive_errors, pyipmi lets it reach the except clause
LoopCallback ==
    \E t \in ThreadIds :
        /\ threads[t].pc = "callback"
        /\ cli.pc # "exited"
        /\ \/ threads' = [threads EXCEPT ![t] =
                              [forget(@) EXCEPT !.consecutive_errors = 0,
                                                !.safety_calls = 0,
                                                !.pc = "sleep"]]
           \/ /\ threads[t].callback
              /\ impl = "pyipmi"
              /\ threads' = [threads EXCEPT ![t] =
                                 [forget(@) EXCEPT !.pc = "except"]]
        /\ UNCHANGED <<pidVars, impl, ctl, fg, hw, faults, cli>>

\* time.sleep(self.monitor_interval) returns
LoopSleep ==
    \E t \in ThreadIds :
        /\ threads[t].pc = "sleep"
        /\ cli.pc # "exited"
        /\ threads' = [threads EXCEPT ![t].pc = "top"]
        /\ UNCHANGED <<pidVars, impl, ctl, fg, hw, faults, cli>>

\* the except clause calling set_fan_speed(70) at every failure
except_clause_every_time(th) ==
    IF impl = "pyipmi" THEN [th EXCEPT !.pc = "backoff"]
    ELSE [th EXCEPT !.consecutive_errors = th.consecutive_errors + 1,
                    !.safety_calls = th.safety_calls + 1,
                    !.call = "safety",
                    !.pc = "set"]

\* except Exception: ipmitool counts the failure and, from
\* max_consecutive_errors on, calls set_fan_speed(70); pyipmi only sleeps
except_clause(th) ==
    IF impl = "pyipmi" THEN [th EXCEPT !.pc = "backoff"]
    ELSE LET n == th.consecutive_errors + 1
         IN  IF n >= max_consecutive_errors
             THEN [th EXCEPT !.consecutive_errors = n,
                             !.safety_calls = th.safety_calls + 1,
                             !.call = "safety",
                             !.pc = "set"]
             ELSE [th EXCEPT !.consecutive_errors = n, !.pc = "backoff"]

LoopExcept ==
    \E t \in ThreadIds :
        /\ threads[t].pc = "except"
        /\ cli.pc # "exited"
        /\ threads' = [threads EXCEPT ![t] = except_clause(threads[t])]
        /\ UNCHANGED <<pidVars, impl, ctl, fg, hw, faults, cli>>

\* time.sleep(5 + consecutive_errors * 3) (pyipmi: time.sleep(5)) returns
LoopBackoff ==
    \E t \in ThreadIds :
        /\ threads[t].pc = "backoff"
        /\ cli.pc # "exited"
        /\ threads' = [threads EXCEPT ![t].pc = "top"]
        /\ UNCHANGED <<pidVars, impl, ctl, fg, hw, faults, cli>>

----------------------------------------------------------------------------
(* start_temperature_monitoring and stop_temperature_monitoring, called by  *)
(* one foreground caller while the monitoring threads run                   *)

\* the thread slot the next start uses
NewThread ==
    CHOOSE t \in ThreadIds :
        /\ threads[t].pc = "none"
        /\ \A u \in ThreadIds : u < t => threads[u].pc # "none"

\* set_target_temperature(target_temp) and set_monitor_interval(interval)
\* on the PID controller, each only when the argument is given
settings_pid(p, target_temp, interval) ==
    LET q == IF target_temp # None THEN set_setpoint(p, target_temp[1])
             ELSE p
    IN  IF interval # None THEN set_sample_time(q, interval[1]) ELSE q

\* the same on the controller object
settings_ctl(c, target_temp, interval) ==
    [c EXCEPT !.target_temp = IF target_temp # None THEN target_temp[1]
                              ELSE c.target_temp,
              !.monitor_interval = IF interval # None THEN interval[1]
                                   ELSE c.monitor_interval]

\* the early return placed after the settings update
StartNoopAfterSettings ==
    \E target_temp \in TargetArgs, interval \in IntervalArgs,
       callback \in BOOLEAN :
        /\ fg.pc = "idle"
        /\ cli.pc = "none"
        /\ ctl.monitoring
        /\ lastOp' = "start"
        /\ lastArg' = <<"noop">>
        /\ fg' = [fg EXCEPT !.raised = FALSE]
        /\ pid' = settings_pid(pid, target_temp, interval)
        /\ ctl' = settings_ctl(ctl, target_temp, interval)
        /\ UNCHANGED <<clock, ret, impl, threads, hw, faults, cli>>

\* start_temperature_monitoring(target_temp, interval, callback) while
\* monitoring: returns at once, whatever the arguments
StartNoop ==
    \E target_temp \in TargetArgs, interval \in IntervalArgs,
       callback \in BOOLEAN :
        /\ fg.pc = "idle"
        /\ cli.pc = "none"
        /\ ctl.monitoring
        /\ lastOp' = "start"
        /\ lastArg' = <<"noop">>
        /\ fg' = [fg EXCEPT !.raised = FALSE]
        /\ UNCHANGED <<clock, pid, ret, impl, ctl, threads, hw, faults, cli>>

\* start_temperature_monitoring(target_temp, interval, callback) while not
\* monitoring; it raises when the connection test, the sensor read (pyipmi)
\* or the manual-mode command fails
start_temperature_monitoring(target_temp, interval, callback) ==
    /\ ~ctl.monitoring
    /\ \E t \in ThreadIds : threads[t].pc = "none"
    /\ lastOp' = "start"
    /\ \/ \* test_connection() / connect() raises
          /\ impl = "ipmitool" \/ ~ctl.connected
          /\ Fault
          /\ ctl' = [ctl EXCEPT !.connected = FALSE]
          /\ fg' = [fg EXCEPT !.raised = TRUE]
          /\ lastArg' = <<"connect_failed">>
          /\ UNCHANGED <<pid, threads, hw>>
       \/ \* get_highest_temperature() raises
          /\ impl = "pyipmi"
          /\ Fault
          /\ ctl' = [settings_ctl(ctl, target_temp, interval)
                         EXCEPT !.connected = TRUE]
          /\ pid' = settings_pid(pid, target_temp, interval)
          /\ fg' = [fg EXCEPT !.raised = TRUE]
          /\ lastArg' = <<"read_failed">>
          /\ UNCHANGED <<threads, hw>>
       \/ \E read_failed \in BOOLEAN, manual_failed \in BOOLEAN :
          \E x \in IF read_failed THEN {fallback_temp} ELSE MonTemps :
              /\ Faults(Count(read_failed) + Count(manual_failed))
              /\ pid' = set_auto_mode(
                            settings_pid(pid, target_temp, interval),
                            TRUE, Some(x))
              /\ IF manual_failed
                 THEN \* _set_manual_mode() raises
                      /\ ctl' = [settings_ctl(ctl, target_temp, interval)
                                     EXCEPT !.connected = TRUE]
                      /\ fg' = [fg EXCEPT !.raised = TRUE]
                      /\ lastArg' = <<"manual_failed">>
                      /\ UNCHANGED <<threads, hw>>
                 ELSE /\ hw' = [hw EXCEPT !.mode = "manual"]
                      /\ ctl' = [settings_ctl(ctl, target_temp, interval)
                                     EXCEPT !.connected = TRUE,
                                            !.temp_callback = callback,
                                            !.monitoring = TRUE,
                                            !.monitor_thread = NewThread]
                      /\ threads' = [threads EXCEPT ![NewThread] =
                                         [NoThread EXCEPT
                                              !.pc = "top",
                                              !.callback = callback]]
                      /\ fg' = [fg EXCEPT !.raised = FALSE]
                      /\ lastArg' = <<"started">>
    /\ UNCHANGED <<clock, ret, impl>>

Start ==
    \E target_temp \in TargetArgs, interval \in IntervalArgs,
       callback \in BOOLEAN :
        /\ fg.pc = "idle"
        /\ cli.pc = "none"
        /\ start_temperature_monitoring(target_temp, interval, callback)
        /\ UNCHANGED cli

\* stop_temperature_monitoring() while not monitoring: returns at once
StopNoop ==
    /\ fg.pc = "idle"
    /\ cli.pc = "none"
    /\ ~ctl.monitoring
    /\ lastOp' = "stop"
    /\ lastArg' = <<"noop">>
    /\ fg' = [fg EXCEPT !.raised = FALSE]
    /\ UNCHANGED <<clock, pid, ret, impl, ctl, threads, hw, faults, cli>>

\* stop_temperature_monitoring() while monitoring, up to the join:
\* self.monitoring = False, then join(2.0) if the thread is alive
StopBegin ==
    /\ fg.pc = "idle"
    /\ cli.pc = "none" \/ (cli.pc = "finally" /\ lastOp # "stop")
    /\ ctl.monitoring
    /\ ctl' = [ctl EXCEPT !.monitoring = FALSE]
    /\ fg' = [pc |-> IF ctl.monitor_thread # 0 /\ Alive(ctl.monitor_thread)
                     THEN "join" ELSE "restore",
              raised |-> FALSE]
    /\ lastOp' = "stop"
    /\ lastArg' = <<"begun">>
    /\ UNCHANGED <<clock, pid, ret, impl, threads, hw, faults, cli>>

\* thread t may still be running when a join(JoinTimeout) on it times out:
\* it is in a command sent to the BMC (no time limit), in the callback, or
\* in a sleep longer than the timeout: monitor_interval, or 5 + 3 x
\* consecutive_errors (pyipmi: 5) seconds
outlasts_join(t) ==
    \/ threads[t].pc \in {"read", "set", "speed", "callback", "backoff"}
    \/ threads[t].pc = "sleep" /\ ctl.monitor_interval > JoinTimeout

\* self.monitor_thread.join(2.0) returns: the thread has finished, or two
\* seconds have passed and it has not
StopJoin ==
    /\ fg.pc = "join"
    /\ ~Alive(ctl.monitor_thread) \/ outlasts_join(ctl.monitor_thread)
    /\ fg' = [fg EXCEPT !.pc = "restore"]
    /\ lastArg' = IF Alive(ctl.monitor_thread) THEN <<"join_timeout">>
                  ELSE <<"joined">>
    /\ UNCHANGED <<clock, pid, lastOp, ret, impl, ctl, threads, hw, faults,
                   cli>>

\* the rest of stop_temperature_monitoring(): self.pid.set_auto_mode(False),
\* then set_automatic_control(); ipmitool swallows a failure of the command,
\* pyipmi sends it only if connected and lets the failure out
StopRestore ==
    /\ fg.pc = "restore"
    /\ pid' = set_auto_mode(pid, FALSE, None)
    /\ IF impl = "pyipmi" /\ ~ctl.connected
       THEN /\ NoFault
            /\ hw' = hw
            /\ fg' = [fg EXCEPT !.pc = "idle"]
            /\ lastArg' = <<"not_connected">>
       ELSE \/ /\ NoFault
               /\ hw' = [hw EXCEPT !.mode = "auto",
                                   !.restores = hw.restores + 1]
               /\ fg' = [fg EXCEPT !.pc = "idle"]
               /\ lastArg' = <<"restored">>
            \/ /\ Fault
               /\ hw' = [hw EXCEPT !.restores = hw.restores + 1]
               /\ fg' = [pc |-> "idle", raised |-> (impl = "pyipmi")]
               /\ lastArg' = <<"restore_failed">>
    /\ UNCHANGED <<clock, lastOp, ret, impl, ctl, threads, cli>>

\* a second passes
MonTick ==
    /\ clock < MaxTime
    /\ clock' = clock + 1
    /\ UNCHANGED <<pid, lastOp, lastArg, ret, monVars>>

MonNext ==
    \/ StartNoop
    \/ Start
    \/ StopNoop
    \/ StopBegin
    \/ StopJoin
    \/ StopRestore
    \/ LoopCheck
    \/ LoopRead
    \/ LoopCompute
    \/ LoopSetManual
    \/ LoopSetSpeed
    \/ LoopCallback
    \/ LoopSleep
    \/ LoopExcept
    \/ LoopBackoff
    \/ MonTick

\* either controller, constructed and idle; the run starts and stops the
\* monitoring up to MaxThreads times and meets MonFaults hardware failures
MonInit ==
    /\ clock = 0
    /\ pid = PIDController
    /\ lastOp = "init"
    /\ lastArg = <<>>
    /\ ret = 0
    /\ impl \in {"ipmitool", "pyipmi"}
    /\ MonIdle(MaxThreads, MonFaults)

SpecMon == MonInit /\ [][MonNext]_vars

\* either controller, constructed and idle; the run starts the monitoring
\* once and meets MaxFaults hardware failures
LoopInit ==
    /\ clock = 0
    /\ pid = PIDController
    /\ lastOp = "init"
    /\ lastArg = <<>>
    /\ ret = 0
    /\ impl \in {"ipmitool", "pyipmi"}
    /\ MonIdle(1, MaxFaults)

SpecLoop == LoopInit /\ [][MonNext]_vars

----------------------------------------------------------------------------
(* cli.py: the 'pid' command, from setup_cleanup() to the exit of the       *)
(* process.  cli.pc is where the main thread is:                            *)
(*   setup    setup_cleanup() done, before the connection test              *)
(*   ready    the controller configured, before the start of the monitoring *)
(*   running  in the sleep of the inner try                                 *)
(*   finally  in the inner finally: stop_temperature_monitoring()           *)
(*   atexit   leaving the interpreter: the atexit hooks run                 *)
(*   exited   the process has ended                                         *)

\* the hardware failures one run of the command meets
CliFaults == 1

\* --interval, in seconds
CliIntervals == {30}

\* cleanup_and_restore(): set_automatic_control() if auto-restore is on, a
\* failure of the command logged and swallowed
cleanup_and_restore ==
    IF cli.auto_restore
    THEN \/ /\ NoFault
            /\ hw' = [hw EXCEPT !.mode = "auto", !.restores = hw.restores + 1]
         \/ /\ Fault
            /\ hw' = [hw EXCEPT !.restores = hw.restores + 1]
    ELSE /\ NoFault
         /\ hw' = hw

\* test_connection() / connect(), configure_pid(), set_target_temperature(),
\* set_monitor_interval() with the options' defaults; a failed connection
\* ends the command through sys.exit(1)
CliConfigure ==
    /\ cli.pc = "setup"
    /\ \/ /\ Fault
          /\ ctl' = [ctl EXCEPT !.connected = FALSE]
          /\ cli' = [cli EXCEPT !.pc = "atexit"]
          /\ pid' = pid
       \/ \E interval \in CliIntervals :
              /\ NoFault
              /\ ctl' = [settings_ctl(ctl, Some(60 * Scale), Some(interval))
                             EXCEPT !.connected = TRUE]
              /\ pid' = settings_pid(
                            set_output_limits(set_tunings(pid, 100, 20, 10),
                                              30 * Scale, 100 * Scale),
                            Some(60 * Scale), Some(interval))
              /\ cli' = [cli EXCEPT !.pc = "ready"]
    /\ lastOp' = "configure"
    /\ lastArg' = <<>>
    /\ UNCHANGED <<clock, ret, impl, threads, fg, hw>>

\* controller.start_temperature_monitoring(target_temp, interval, callback);
\* if it raises, the outer except ends the command through sys.exit(1)
CliStart ==
    /\ cli.pc = "ready"
    /\ start_temperature_monitoring(Some(ctl.target_temp),
                                    Some(ctl.monitor_interval), TRUE)
    /\ cli' = [cli EXCEPT !.pc = IF fg'.raised THEN "atexit" ELSE "running"]

\* time.sleep(runtime) returns: on to the inner finally
CliRuntimeOver ==
    /\ cli.pc = "running"
    /\ cli' = [cli EXCEPT !.pc = "finally"]
    /\ lastOp' = "runtime_over"
    /\ lastArg' = <<>>
    /\ UNCHANGED <<clock, pid, ret, impl, ctl, threads, fg, hw, faults>>

\* SIGINT or SIGTERM while the command runs.  With auto-restore the handler
\* of setup_cleanup runs cleanup_and_restore() and sys.exit(0); without it
\* SIGINT raises KeyboardInterrupt.  Either exception takes the main thread
\* from the sleep into the inner finally, and out of a
\* stop_temperature_monitoring() in progress to the exit.
CliSignal ==
    /\ cli.pc \in {"ready", "running", "finally"}
    /\ cli.signals < MaxSignals
    /\ cleanup_and_restore
    /\ cli' = [cli EXCEPT !.signals = cli.signals + 1,
                          !.pc = IF cli.pc = "running" THEN "finally"
                                 ELSE "atexit"]
    /\ fg' = [fg EXCEPT !.pc = "idle"]
    /\ lastOp' = IF cli.pc = "finally" THEN "stop_interrupted" ELSE "signal"
    /\ lastArg' = <<>>
    /\ UNCHANGED <<clock, pid, ret, impl, ctl, threads>>

\* stop_temperature_monitoring() of the inner finally has returned or raised
CliStopped ==
    /\ cli.pc = "finally"
    /\ lastOp = "stop"
    /\ fg.pc = "idle"
    /\ cli' = [cli EXCEPT !.pc = "atexit"]
    /\ UNCHANGED <<pidVars, impl, ctl, threads, fg, hw, faults>>

\* the atexit hook: cleanup_and_restore() is registered only with auto-restore
CliAtexit ==
    /\ cli.pc = "atexit"
    /\ cleanup_and_restore
    /\ cli' = [cli EXCEPT !.pc = "exited"]
    /\ UNCHANGED <<pidVars, impl, ctl, threads, fg>>

\* the 'pid' command after setup_cleanup(controller, auto_restore)
CliInit ==
    /\ clock = 0
    /\ pid = PIDController
    /\ lastOp = "init"
    /\ lastArg = <<>>
    /\ ret = 0
    /\ impl \in {"ipmitool", "pyipmi"}
    /\ ctl = FanController
    /\ threads = [t \in {1} |-> NoThread]
    /\ fg = Foreground
    /\ hw = Bmc
    /\ faults = CliFaults
    /\ \E a \in BOOLEAN : cli = [pc |-> "setup", auto_restore |-> a,
                                 signals |-> 0]

CliNext ==
    \/ CliConfigure
    \/ CliStart
    \/ CliRuntimeOver
    \/ CliSignal
    \/ CliStopped
    \/ CliAtexit
    \/ StopBegin
    \/ StopJoin
    \/ StopRestore
    \/ LoopCheck
    \/ LoopRead
    \/ LoopCompute
    \/ LoopSetManual
    \/ LoopSetSpeed
    \/ LoopCallback
    \/ LoopSleep
    \/ LoopExcept
    \/ LoopBackoff
    \/ MonTick

SpecCli == CliInit /\ [][CliNext]_vars

----------------------------------------------------------------------------
(* _calculate_base_response() called repeatedly on one controller, with     *)
(* errors above 5 degrees                                                   *)

\* the errors are 5.5, 6.0, ... in steps of half a degree, MaxBaseSteps of them
MaxBaseSteps == 24

BaseErrors == {5 * Scale + 500 * k : k \in 1 .. MaxBaseSteps}

\* (output_min, output_max) of the controller, output_min <= output_max
BaseLimits ==
    {<<30 * Scale, 100 * Scale>>, <<40 * Scale, 80 * Scale>>,
     <<30 * Scale, 60 * Scale>>, <<75 * Scale, 75 * Scale>>,
     <<0, 100 * Scale>>}

\* PIDController(output_min = l[1], output_max = l[2])
BaseInit ==
    /\ clock = 0
    /\ \E l \in BaseLimits :
           pid = PIDControllerNew(100, 20, 10, l[1], l[2], 1, 0)
    /\ lastOp = "init"
    /\ lastArg = <<>>
    /\ ret = 0
    /\ impl = "ipmitool"
    /\ MonIdle(1, 0)

\* self._calculate_base_response(error)
CalculateBaseResponse ==
    \E error \in BaseErrors :
        /\ ret' = calculate_base_response(pid, error)
        /\ lastOp' = "calculate_base_response"
        /\ lastArg' = <<error>>
        /\ UNCHANGED <<clock, pid, monVars>>

BaseNext == CalculateBaseResponse

SpecBase == BaseInit /\ [][BaseNext]_vars

----------------------------------------------------------------------------
(* set_fan_speed(percentage) of both controllers, called directly by one    *)
(* caller.  lastArg is the log of the commands the call has sent to the     *)
(* BMC, each with its outcome; fg.pc is where the call is:                  *)
(*   set_manual  before _set_manual_mode()                                  *)
(*   set_speed   before the conversion and the set-speed command            *)

\* the hardware failures one run of calls meets
SetFaults == 2

\* the percentage arguments: ints in and out of [0, 100], and a float
SetSpeeds ==
    {PyInt(-1 * Scale), PyInt(0), PyInt(50 * Scale), PyInt(100 * Scale),
     PyInt(101 * Scale), PyFloat(30 * Scale)}

\* the caller between two calls: raised and error tell how the last call
\* ended
SetIdle(speed, error) ==
    [pc |-> "idle", raised |-> error # "none", percentage |-> speed,
     error |-> error]

\* either controller, constructed and idle, connected or not
SetInit ==
    /\ clock = 0
    /\ pid = PIDController
    /\ lastOp = "init"
    /\ lastArg = <<>>
    /\ ret = 0
    /\ impl \in {"ipmitool", "pyipmi"}
    /\ \E c \in BOOLEAN : ctl = [FanController EXCEPT !.connected = c]
    /\ threads = [t \in {1} |-> NoThread]
    /\ fg = SetIdle(PyInt(0), "none")
    /\ hw = Bmc
    /\ faults = SetFaults
    /\ cli = NoCli

\* set_fan_speed(percentage) up to _set_manual_mode(): pyipmi connects
\* first if it is not connected, then both check the range
SetFanSpeedBegin ==
    \E speed \in SetSpeeds :
        /\ fg.pc = "idle"
        /\ lastOp' = "set_fan_speed"
        /\ LET connects == impl = "pyipmi" /\ ~ctl.connected
               outside == speed.val < 0 \/ speed.val > 100 * Scale
           IN  \/ /\ connects
                  /\ Fault
                  /\ ctl' = [ctl EXCEPT !.connected = FALSE]
                  /\ lastArg' = <<"connect_failed">>
                  /\ fg' = SetIdle(speed, "RuntimeError")
               \/ /\ NoFault
                  /\ ctl' = IF connects THEN [ctl EXCEPT !.connected = TRUE]
                            ELSE ctl
                  /\ lastArg' = IF connects THEN <<"connect">> ELSE <<>>
                  /\ fg' = IF outside THEN SetIdle(speed, "ValueError")
                           ELSE [SetIdle(speed, "none")
                                     EXCEPT !.pc = "set_manual"]
        /\ UNCHANGED <<clock, pid, ret, impl, threads, hw, cli>>

\* self._set_manual_mode(): ipmitool wraps the failure in RuntimeError,
\* pyipmi lets the exception of raw_command out
SetFanSpeedManual ==
    /\ fg.pc = "set_manual"
    /\ \/ /\ NoFault
          /\ hw' = [hw EXCEPT !.mode = "manual"]
          /\ lastArg' = Append(lastArg, "manual")
          /\ fg' = [fg EXCEPT !.pc = "set_speed"]
       \/ /\ Fault
          /\ hw' = hw
          /\ lastArg' = Append(lastArg, "manual_failed")
          /\ fg' = SetIdle(fg.percentage,
                           IF impl = "ipmitool" THEN "RuntimeError"
                           ELSE "CommandError")
    /\ UNCHANGED <<clock, pid, lastOp, ret, impl, ctl, threads, cli>>

\* ipmitool: format(percentage, 'x'), which raises for a float; then the
\* set-speed command
SetFanSpeedSpeed ==
    /\ fg.pc = "set_speed"
    /\ IF impl = "ipmitool" /\ fg.percentage.is_float
       THEN /\ NoFault
            /\ hw' = hw
            /\ lastArg' = lastArg
            /\ fg' = SetIdle(fg.percentage, "RuntimeError")
       ELSE \/ /\ NoFault
               /\ hw' = [hw EXCEPT !.speed = fg.percentage.val]
               /\ lastArg' = Append(lastArg, "speed")
               /\ fg' = SetIdle(fg.percentage, "none")
            \/ /\ Fault
               /\ hw' = hw
               /\ lastArg' = Append(lastArg, "speed_failed")
               /\ fg' = SetIdle(fg.percentage,
                                IF impl = "ipmitool" THEN "RuntimeError"
                                ELSE "CommandError")
    /\ UNCHANGED <<clock, pid, lastOp, ret, impl, ctl, threads, cli>>

SetNext ==
    \/ SetFanSpeedBegin
    \/ SetFanSpeedManual
    \/ SetFanSpeedSpeed

SpecSet == SetInit /\ [][SetNext]_vars

----------------------------------------------------------------------------
(* One monitoring loop whose thread is scheduled fairly *)

\* the hardware failures the fair run meets
LiveFaults == 1

\* a step of the monitoring thread
LoopStep ==
    \/ LoopCheck
    \/ LoopRead
    \/ LoopCompute
    \/ LoopSetManual
    \/ LoopSetSpeed
    \/ LoopCallback
    \/ LoopSleep
    \/ LoopExcept
    \/ LoopBackoff

\* either controller, constructed and idle; the run starts the monitoring
\* once and meets LiveFaults hardware failures
LiveInit ==
    /\ clock = 0
    /\ pid = PIDController
    /\ lastOp = "init"
    /\ lastArg = <<>>
    /\ ret = 0
    /\ impl \in {"ipmitool", "pyipmi"}
    /\ MonIdle(1, LiveFaults)

\* the calls of the caller and the steps of the thread, all within one
\* second of the clock
LiveNext ==
    \/ StartNoop
    \/ Start
    \/ StopNoop
    \/ StopBegin
    \/ StopJoin
    \/ StopRestore
    \/ LoopStep

\* the thread is a running threading.Thread: the operating system goes on
\* scheduling it, its commands return or raise, and its sleeps end
SpecLoopFair == LiveInit /\ [][LiveNext]_vars /\ WF_vars(LoopStep)

----------------------------------------------------------------------------
(* One monitoring loop that is stopped only while its thread is in a sleep  *)

\* the thread is in time.sleep(self.monitor_interval) or in the sleep that
\* follows a failed iteration
Asleep(t) == threads[t].pc \in {"sleep", "backoff"}

\* stop_temperature_monitoring() is invoked while the monitoring thread is
\* in one of its sleeps
StopBeginAsleep ==
    /\ ctl.monitor_thread # 0
    /\ Asleep(ctl.monitor_thread)
    /\ StopBegin

SleepNext ==
    \/ StartNoop
    \/ Start
    \/ StopNoop
    \/ StopBeginAsleep
    \/ StopJoin
    \/ StopRestore
    \/ LoopCheck
    \/ LoopRead
    \/ LoopCompute
    \/ LoopSetManual
    \/ LoopSetSpeed
    \/ LoopCallback
    \/ LoopSleep
    \/ LoopExcept
    \/ LoopBackoff
    \/ MonTick

SpecSleep == LoopInit /\ [][SleepNext]_vars

----------------------------------------------------------------------------
(* The 'pid' command with every command sent to the BMC in two steps: the   *)
(* command is issued (a subprocess is started, a raw command is sent), and  *)
(* later it returns or raises.  hw.in_flight holds who has a command in     *)
(* flight: "monitor" (the monitoring thread), "stop" (the main thread in    *)
(* stop_temperature_monitoring), "cleanup" (the main thread in              *)
(* cleanup_and_restore).  cli.pc = "handler": the main thread is in the     *)
(* signal handler, which cli.resume follows; fg.pc = "restoring": it is in  *)
(* the set_automatic_control() of stop_temperature_monitoring.              *)

\* the hardware failures one run of the command meets
FlightFaults == 1

InFlight(who) == who \in hw.in_flight

issue(who) == hw' = [hw EXCEPT !.in_flight = @ \cup {who}]

\* the 'pid' command after setup_cleanup(controller, auto_restore)
FlightInit ==
    /\ clock = 0
    /\ pid = PIDController
    /\ lastOp = "init"
    /\ lastArg = <<>>
    /\ ret = 0
    /\ impl \in {"ipmitool", "pyipmi"}
    /\ ctl = FanController
    /\ threads = [t \in {1} |-> NoThread]
    /\ fg = Foreground
    /\ hw = [mode |-> "auto", speed |-> 0, restores |-> 0, in_flight |-> {}]
    /\ faults = FlightFaults
    /\ \E a \in BOOLEAN : cli = [pc |-> "setup", auto_restore |-> a,
                                 signals |-> 0, resume |-> "none"]

\* the thread issues the command of the call it is in: the sensor read, the
\* manual-mode command (after the range check) or the set-speed command
\* (after the conversion to hex)
FlightLoopIssue ==
    \E t \in ThreadIds :
        /\ cli.pc # "exited"
        /\ ~InFlight("monitor")
        /\ \/ threads[t].pc = "read"
           \/ /\ threads[t].pc = "set"
              /\ percentage(t).val >= 0
              /\ percentage(t).val <= 100 * Scale
           \/ /\ threads[t].pc = "speed"
              /\ ~(impl = "ipmitool" /\ percentage(t).is_float)
        /\ issue("monitor")
        /\ UNCHANGED <<pidVars, impl, ctl, threads, fg, faults, cli>>

\* get_highest_temperature() returns or raises
FlightLoopRead ==
    \E t \in ThreadIds :
        /\ threads[t].pc = "read"
        /\ cli.pc # "exited"
        /\ InFlight("monitor")
        /\ \/ \E x \in MonTemps :
                  /\ NoFault
                  /\ threads' = [threads EXCEPT ![t].current_temp = x,
                                                ![t].pc = "compute"]
           \/ /\ Fault
              /\ threads' = [threads EXCEPT ![t].current_temp = fallback_temp,
                                            ![t].pc = "compute"]
           \/ /\ impl = "pyipmi"
              /\ Fault
              /\ threads' = [threads EXCEPT ![t].pc = "except"]
        /\ hw' = [hw EXCEPT !.in_flight = @ \ {"monitor"}]
        /\ UNCHANGED <<pidVars, impl, ctl, fg, cli>>

\* set_fan_speed: the range check raises, or the manual-mode command
\* returns or raises
FlightLoopSetManual ==
    \E t \in ThreadIds :
        /\ threads[t].pc = "set"
        /\ cli.pc # "exited"
        /\ IF percentage(t).val < 0 \/ percentage(t).val > 100 * Scale
           THEN /\ NoFault
                /\ threads' = [threads EXCEPT ![t] = set_raised(@)]
                /\ hw' = hw
           ELSE /\ InFlight("monitor")
                /\ \/ /\ NoFault
                      /\ hw' = [hw EXCEPT !.mode = "manual",
                                          !.in_flight = @ \ {"monitor"}]
                      /\ threads' = [threads EXCEPT ![t].pc = "speed"]
                   \/ /\ Fault
                      /\ hw' = [hw EXCEPT !.in_flight = @ \ {"monitor"}]
                      /\ threads' = [threads EXCEPT ![t] = set_raised(@)]
        /\ UNCHANGED <<pidVars, impl, ctl, fg, cli>>

\* set_fan_speed: the conversion raises, or the set-speed command returns
\* or raises
FlightLoopSetSpeed ==
    \E t \in ThreadIds :
        /\ threads[t].pc = "speed"
        /\ cli.pc # "exited"
        /\ IF impl = "ipmitool" /\ percentage(t).is_float
           THEN /\ NoFault
                /\ threads' = [threads EXCEPT ![t] = set_raised(@)]
                /\ hw' = hw
           ELSE /\ InFlight("monitor")
                /\ \/ /\ NoFault
                      /\ hw' = [hw EXCEPT !.speed = percentage(t).val,
                                          !.in_flight = @ \ {"monitor"}]
                      /\ threads' = [threads EXCEPT ![t] = set_returned(@)]
                   \/ /\ Fault
                      /\ hw' = [hw EXCEPT !.in_flight = @ \ {"monitor"}]
                      /\ threads' = [threads EXCEPT ![t] = set_raised(@)]
        /\ UNCHANGED <<pidVars, impl, ctl, fg, cli>>

\* stop_temperature_monitoring() after the join: self.pid.set_auto_mode(False),
\* then set_automatic_control() is issued (pyipmi: only if connected)
FlightRestoreIssue ==
    /\ fg.pc = "restore"
    /\ cli.pc # "handler"
    /\ pid' = set_auto_mode(pid, FALSE, None)
    /\ IF impl = "pyipmi" /\ ~ctl.connected
       THEN /\ hw' = hw
            /\ fg' = [fg EXCEPT !.pc = "idle"]
            /\ lastArg' = <<"not_connected">>
       ELSE /\ issue("stop")
            /\ fg' = [fg EXCEPT !.pc = "restoring"]
            /\ lastArg' = <<"restoring">>
    /\ UNCHANGED <<clock, lastOp, ret, impl, ctl, threads, faults, cli>>

\* set_automatic_control() returns or raises; ipmitool swallows the failure
FlightRestoreReturn ==
    /\ fg.pc = "restoring"
    /\ cli.pc # "handler"
    /\ \/ /\ NoFault
          /\ hw' = [hw EXCEPT !.mode = "auto", !.restores = hw.restores + 1,
                              !.in_flight = @ \ {"stop"}]
          /\ fg' = [fg EXCEPT !.pc = "idle"]
          /\ lastArg' = <<"restored">>
       \/ /\ Fault
          /\ hw' = [hw EXCEPT !.restores = hw.restores + 1,
                              !.in_flight = @ \ {"stop"}]
          /\ fg' = [pc |-> "idle", raised |-> (impl = "pyipmi")]
          /\ lastArg' = <<"restore_failed">>
    /\ UNCHANGED <<clock, pid, lastOp, ret, impl, ctl, threads, cli>>

\* self.monitor_thread.join(2.0) returns
FlightStopJoin == cli.pc # "handler" /\ StopJoin

\* SIGINT or SIGTERM: the main thread enters signal_handler, whose
\* cleanup_and_restore() issues set_automatic_control() if auto-restore is on
FlightSignal ==
    /\ cli.pc \in {"ready", "running", "finally"}
    /\ cli.signals < MaxSignals
    /\ cli' = [cli EXCEPT !.signals = cli.signals + 1,
                          !.pc = "handler",
                          !.resume = IF cli.pc = "running" THEN "finally"
                                     ELSE "atexit"]
    /\ IF cli.auto_restore THEN issue("cleanup") ELSE hw' = hw
    /\ lastOp' = IF cli.pc = "finally" THEN "stop_interrupted" ELSE "signal"
    /\ lastArg' = <<>>
    /\ UNCHANGED <<clock, pid, ret, impl, ctl, threads, fg, faults>>

\* the command of the handler returns or raises (logged and swallowed), then
\* sys.exit(0): SystemExit ends a stop_temperature_monitoring() in progress,
\* and subprocess.run kills the command that one had in flight
FlightSignalExit ==
    /\ cli.pc = "handler"
    /\ IF cli.auto_restore
       THEN \/ /\ NoFault
               /\ hw' = [hw EXCEPT !.mode = "auto",
                                   !.restores = hw.restores + 1,
                                   !.in_flight = @ \ {"cleanup", "stop"}]
            \/ /\ Fault
               /\ hw' = [hw EXCEPT !.restores = hw.restores + 1,
                                   !.in_flight = @ \ {"cleanup", "stop"}]
       ELSE /\ NoFault
            /\ hw' = [hw EXCEPT !.in_flight = @ \ {"stop"}]
    /\ cli' = [cli EXCEPT !.pc = cli.resume, !.resume = "none"]
    /\ fg' = [fg EXCEPT !.pc = "idle"]
    /\ UNCHANGED <<pidVars, impl, ctl, threads>>

\* the atexit hook issues set_automatic_control() if auto-restore is on
FlightAtexit ==
    /\ cli.pc = "atexit"
    /\ cli' = [cli EXCEPT !.pc = "atexit_hook"]
    /\ IF cli.auto_restore THEN issue("cleanup") ELSE hw' = hw
    /\ UNCHANGED <<pidVars, impl, ctl, threads, fg, faults>>

\* the command of the atexit hook returns or raises; the process ends
FlightExit ==
    /\ cli.pc = "atexit_hook"
    /\ IF cli.auto_restore
       THEN \/ /\ NoFault
               /\ hw' = [hw EXCEPT !.mode = "auto",
                                   !.restores = hw.restores + 1,
                                   !.in_flight = {}]
            \/ /\ Fault
               /\ hw' = [hw EXCEPT !.restores = hw.restores + 1,
                                   !.in_flight = {}]
       ELSE /\ NoFault
            /\ hw' = [hw EXCEPT !.in_flight = {}]
    /\ cli' = [cli EXCEPT !.pc = "exited"]
    /\ UNCHANGED <<pidVars, impl, ctl, threads, fg>>

FlightNext ==
    \/ CliConfigure
    \/ CliStart
    \/ CliRuntimeOver
    \/ CliStopped
    \/ FlightSignal
    \/ FlightSignalExit
    \/ FlightAtexit
    \/ FlightExit
    \/ StopBegin
    \/ FlightStopJoin
    \/ FlightRestoreIssue
    \/ FlightRestoreReturn
    \/ LoopCheck
    \/ FlightLoopIssue
    \/ FlightLoopRead
    \/ LoopCompute
    \/ FlightLoopSetManual
    \/ FlightLoopSetSpeed
    \/ LoopCallback
    \/ LoopSleep
    \/ LoopExcept
    \/ LoopBackoff

SpecFlight == FlightInit /\ [][FlightNext]_vars

----------------------------------------------------------------------------
(* get_highest_temperature() of both controllers, applied to the sensor     *)
(* lists get_temperature_sensors() can return                               *)

\* the sensors of one list
MaxSensors == 3

\* a sensor dictionary: current_temp, and whether it is an int or a float
\* (ipmi.py stores reading.raw, which is None for a sensor without a value)
SensorReadings ==
    {[numeric |-> TRUE, current_temp |-> 45 * Scale],
     [numeric |-> TRUE, current_temp |-> 61 * Scale],
     [numeric |-> FALSE, current_temp |-> 0]}

SensorLists ==
    UNION {[1 .. n -> SensorReadings] : n \in 0 .. MaxSensors}

IsNumeric(sensor) == sensor.numeric

\* max(temps) of a non-empty list of numbers
max_temp(temps) ==
    CHOOSE x \in {temps[i].current_temp : i \in DOMAIN temps} :
        \A j \in DOMAIN temps : temps[j].current_temp <= x

\* get_highest_temperature() when get_temperature_sensors() returns sensors:
\* how the call ends (returned: with the number val; returned_none: with
\* None; raised) 
\* ipmitool: 60.0 for an empty list, else the maximum of the numeric
\*           values, 60.0 if there is none
\* pyipmi:   0.0 for an empty list, else max() over all the values: the
\*           value itself for a single one, TypeError when a None is compared
get_highest_temperature(sensors) ==
    IF impl = "ipmitool"
    THEN LET temps == SelectSeq(sensors, IsNumeric)
         IN  IF sensors = <<>> \/ temps = <<>>
             THEN [how |-> "returned", val |-> DefaultTemp * Scale]
             ELSE [how |-> "returned", val |-> max_temp(temps)]
    ELSE IF sensors = <<>> THEN [how |-> "returned", val |-> 0]
    ELSE IF \A i \in DOMAIN sensors : sensors[i].numeric
    THEN [how |-> "returned", val |-> max_temp(sensors)]
    ELSE IF Len(sensors) = 1 THEN [how |-> "returned_none", val |-> 0]
    ELSE [how |-> "raised", val |-> 0]

\* either controller, and a BMC reporting one of the sensor lists
SensorInit ==
    /\ clock = 0
    /\ pid = PIDController
    /\ lastOp = "init"
    /\ lastArg = <<>>
    /\ ret = 0
    /\ impl \in {"ipmitool", "pyipmi"}
    /\ ctl = FanController
    /\ threads = [t \in {1} |-> NoThread]
    /\ fg = Foreground
    /\ \E sensors \in SensorLists :
           hw = [mode |-> "auto", speed |-> 0, restores |-> 0,
                 sensors |-> sensors]
    /\ faults = 0
    /\ cli = NoCli

GetHighestTemperature ==
    LET r == get_highest_temperature(hw.sensors)
    IN  /\ lastOp' = "get_highest_temperature"
        /\ lastArg' = <<r.how>>
        /\ ret' = r.val
        /\ UNCHANGED <<clock, pid, monVars>>

SensorNext == GetHighestTemperature

SpecSensors == SensorInit /\ [][SensorNext]_vars

----------------------------------------------------------------------------
(* Claims about the PIDController, checked under Spec *)

WithinLimits(x, p) == p.output_min <= x /\ x <= p.output_max

\* the rate limit of a recompute: 5.0 per second, 2.5 when |error| < 2.0
\* (twice the distance is compared with twice the limit, so 2.5 stays whole)
WithinRate(distance, error, elapsed) ==
    IF Abs(error) < 2 * Scale
    THEN 2 * distance <= 5 * Scale * elapsed
    ELSE distance <= 5 * Scale * elapsed

\* C1: in auto mode, with output_min <= output_max, every value compute()
\* returns lies within [output_min, output_max].
C1_ComputeWithinLimits ==
    (lastOp = "compute" /\ pid.auto_mode /\ pid.output_min <= pid.output_max)
        => WithinLimits(ret, pid)

\* C2 as claimed: after every operation that writes the integral term
\* (construction, initialize, set_auto_mode into auto mode, compute outside
\* the skip and manual branches, an accepted set_output_limits in auto mode)
\* integral lies within [output_min, output_max].
C2_IntegralAlwaysClamped ==
    (\/ lastOp \in {"init", "initialize"}
     \/ lastOp = "compute" /\ lastArg[1] \in {"first", "recompute"}
     \/ lastOp = "set_output_limits" /\ lastArg[1] <= lastArg[2]
                                     /\ pid.auto_mode)
        => WithinLimits(pid.integral, pid)

\* C2 as amended: the integral term is clamped after a regular (non-first)
\* update in compute() and after an accepted set_output_limits in auto mode.
C2_IntegralClampedAfterUpdate ==
    (\/ lastOp = "compute" /\ lastArg[1] = "recompute"
     \/ lastOp = "set_output_limits" /\ lastArg[1] <= lastArg[2]
                                     /\ pid.auto_mode)
        => WithinLimits(pid.integral, pid)

\* a regular update has accumulated into an integral term that needed the clamp
C2_Witness ==
    /\ lastOp = "compute"
    /\ lastArg[1] = "recompute"
    /\ pid.integral = pid.output_min
    /\ pid.ki > 0
    /\ pid.last_error > 0

\* C6: a running controller switched to manual and back to auto with
\* set_auto_mode(True, x) returns, on the next compute(x), a value no
\* further from its last output L than the rate limit allows.
C6_BumplessTransfer ==
    [][(/\ lastOp = "set_auto_mode"
        /\ pid.auto_mode /\ ~pid.initialized
        /\ pid.integral = pid.last_output   \* seeded by set_auto_mode(True, x)
        /\ pid.last_output # 0              \* the controller has run before
        /\ clock > pid.last_time            \* the rate limit is not zero
        /\ Compute
        /\ pid'.last_input = pid.last_input)
       => WithinRate(Abs(ret' - pid.last_output),
                     pid'.last_error, clock - pid.last_time)]_vars

\* C7: a compute() that recomputes returns a value within 5.0 x elapsed of
\* the previous last_output, and within 2.5 x elapsed when |error| < 2.0.
C7_RateLimited ==
    [][(Compute /\ lastArg' = <<"recompute">>)
       => WithinRate(Abs(ret' - pid.last_output),
                     pid'.last_error, pid'.last_time - pid.last_time)]_vars

\* a recompute near the setpoint has returned
C7_Witness ==
    /\ lastOp = "compute"
    /\ lastArg = <<"recompute">>
    /\ Abs(pid.last_error) < 2 * Scale
    /\ ret = pid.last_output
    /\ pid.last_time > 0

\* C9: set_output_limits(min, max) with min > max changes no field, and
\* output_min <= output_max holds in every reachable state.
C9_LimitsOrdered ==
    /\ [](pid.output_min <= pid.output_max)
    /\ [][(SetOutputLimits /\ lastArg'[1] > lastArg'[2]) => pid' = pid]_vars

\* set_output_limits was called with min > max
C9_Witness ==
    /\ lastOp = "set_output_limits"
    /\ lastArg[1] > lastArg[2]
    /\ pid.output_min <= pid.output_max
    /\ pid.auto_mode

\* C17: a compute() on a controller that is not in auto mode returns 0.0,
\* whatever the input and the time, and changes no field.
C17_ManualComputeIsNoop ==
    [][(Compute /\ ~pid.auto_mode) => (ret' = 0 /\ pid' = pid)]_vars

\* compute() has returned 0.0 on a controller switched to manual after it
\* had run: its fields still hold the last calculation
C17_Witness ==
    /\ lastOp = "compute"
    /\ lastArg = <<"manual">>
    /\ ret = 0
    /\ ~pid.auto_mode
    /\ pid.initialized
    /\ pid.last_output > 0
    /\ pid.last_input \in Temps
    /\ clock > pid.last_time

\* C18: on an initialized controller in auto mode a compute() less than
\* sample_time after last_time returns the stored last_output and changes
\* no field, whatever the input and whatever the setpoint, the gains and
\* the limits have been changed to since.
C18_SkipComputeIsNoop ==
    [][(/\ Compute
        /\ pid.auto_mode /\ pid.initialized
        /\ clock - pid.last_time < pid.sample_time)
       => (ret' = pid.last_output /\ pid' = pid)]_vars

\* a compute() one second after the last calculation, within the sample
\* time, has returned a last_output that limits set since no longer admit
C18_Witness ==
    /\ lastOp = "compute"
    /\ lastArg = <<"skip">>
    /\ clock > pid.last_time
    /\ clock - pid.last_time < pid.sample_time
    /\ ret = pid.last_output
    /\ ~WithinLimits(ret, pid)

\* C19: the first compute() in auto mode (initialized False) returns
\* 35 + 25 x min(error, 15)/15 when error = input - setpoint > 0 and
\* output_min otherwise, whatever the gains, the time, the previous
\* last_output and the last_input; it sets integral to 0.3 x that value and
\* sets initialized.
C19_FirstCompute ==
    [][\A x \in Temps :
           (ComputeOn(x) /\ pid.auto_mode /\ ~pid.initialized) =>
               LET error == x - pid.setpoint
                   expected ==
                       IF error > 0
                       THEN 35 * Scale
                            + Mul(25 * Scale,
                                  Round(Min(error, 15 * Scale), 15))
                       ELSE pid.output_min
               IN  /\ ret' = expected
                   /\ pid'.integral = Round(3 * expected, 10)
                   /\ pid'.initialized]_vars

\* a first compute() more than 15 degrees above the setpoint has returned
\* 60.0 and seeded the integral with 18.0, on a controller with other gains
\* than the defaults, after its construction time
C19_Witness ==
    /\ lastOp = "compute"
    /\ lastArg = <<"first">>
    /\ pid.last_error > 15 * Scale
    /\ ret = 60 * Scale
    /\ pid.integral = 18 * Scale
    /\ pid.kp = 0
    /\ clock > 0

\* C20: set_auto_mode(True, x) in manual mode sets last_error = 0,
\* initialized = False, last_input = x and integral = last_output
\* (last_input = 0 and integral = 0 when x is omitted) and enters auto
\* mode; set_auto_mode(False) changes only auto_mode; set_auto_mode(True, x)
\* in auto mode changes nothing.
C20_SetAutoModeEffect ==
    [][\A a \in BOOLEAN, x \in AutoModeInputs :
           SetAutoModeOn(a, x) =>
               pid' = IF ~a THEN [pid EXCEPT !.auto_mode = FALSE]
                      ELSE IF pid.auto_mode THEN pid
                      ELSE [pid EXCEPT
                                !.auto_mode = TRUE,
                                !.last_error = 0,
                                !.initialized = FALSE,
                                !.last_input = IF x = None THEN 0 ELSE x[1],
                                !.integral = IF x = None THEN 0
                                             ELSE pid.last_output]]_vars

\* a controller that had run has been switched from manual to auto mode
\* with a current_input: the integral is seeded with its last output
C20_Witness ==
    /\ lastOp = "set_auto_mode"
    /\ pid.auto_mode
    /\ ~pid.initialized
    /\ pid.last_error = 0
    /\ pid.last_input \in Temps
    /\ pid.last_output > 0
    /\ pid.integral = pid.last_output

\* C21: set_sample_time(s) with s > 0 sets ki to ki x s/old, kd to
\* kd x old/s and sample_time to s, and changes nothing when s is the
\* current sample time; with s <= 0 it changes nothing.  So sample_time > 0
\* in every reachable state, and the elapsed time compute() divides by in a
\* regular update is never zero.
C21_SampleTimeRescales ==
    /\ [](pid.sample_time > 0)
    /\ [][\A s \in SampleTimeArgs :
              SetSampleTimeOn(s) =>
                  /\ pid' = IF s > 0
                            THEN [pid EXCEPT
                                      !.ki = Round(pid.ki * s, pid.sample_time),
                                      !.kd = Round(pid.kd * pid.sample_time, s),
                                      !.sample_time = s]
                            ELSE pid
                  /\ s = pid.sample_time => pid' = pid]_vars
    /\ [][(Compute /\ lastArg' = <<"recompute">>)
              => clock - pid.last_time > 0]_vars

\* the default controller after set_sample_time(2): ki doubled, kd halved
C21_Witness ==
    /\ lastOp = "set_sample_time"
    /\ pid.sample_time = 2
    /\ pid.ki = 2 * PIDController.ki
    /\ 2 * pid.kd = PIDController.kd

----------------------------------------------------------------------------
(* Claim about _calculate_base_response, checked under SpecBase *)

\* C22: of two calls of _calculate_base_response with errors
\* 5.0 < e1 <= e2, on a controller with output_min <= output_max, the second
\* returns at least what the first returned and at most output_max, and
\* the call changes no field.
C22_BaseResponseMonotone ==
    [][(/\ lastOp = "calculate_base_response"
        /\ CalculateBaseResponse
        /\ pid.output_min <= pid.output_max
        /\ 5 * Scale < lastArg[1]
        /\ lastArg[1] <= lastArg'[1])
       => (ret <= ret' /\ ret' <= pid.output_max /\ pid' = pid)]_vars

----------------------------------------------------------------------------
(* Claim about the integration scenario, checked under SpecIntegration *)

\* C8 as claimed: with kp = kd = 0, ki > 0, fixed limits and a constant
\* input above the setpoint, each call's output is >= the previous call's
\* output, for every positive error.  (Stated for the runs whose previous
\* output lies within the limits: a first output outside them is C1's case.)
C8_OutputsNonDecreasing ==
    [][(IntNextCompute /\ WithinLimits(ret, pid)) => ret' >= ret]_vars

\* C8 as amended: the same, with the default limits (30, 100) and an error
\* of at most 3 degrees.
C8_OutputsNonDecreasingNearSetpoint ==
    [][(/\ IntNextCompute
        /\ pid.output_min = 30 * Scale /\ pid.output_max = 100 * Scale
        /\ pid.last_error <= 3 * Scale)
       => ret' >= ret]_vars

\* the fourth call of a run 3 degrees above the setpoint has returned more
\* than the first call did
C8_Witness ==
    /\ lastOp = "compute"
    /\ lastArg = <<"recompute">>
    /\ clock = MaxIntTime
    /\ pid.output_min = 30 * Scale /\ pid.output_max = 100 * Scale
    /\ pid.last_error = 3 * Scale
    /\ ret > first_output(pid, pid.last_error)

----------------------------------------------------------------------------
(* Claim about one monitoring loop, checked under SpecLoop *)

\* C3 as claimed: in the ipmitool loop, during a run of consecutive failed
\* iterations set_fan_speed(70) is issued exactly once, at the third
\* failure, not again at the fourth and later ones, and never before the third.
C3_SafetyIssuedOnce ==
    \A t \in ThreadIds :
        impl = "ipmitool" =>
            threads[t].safety_calls =
                IF threads[t].consecutive_errors >= max_consecutive_errors
                THEN 1 ELSE 0

\* C3 as amended: set_fan_speed(70) is issued at the third consecutive
\* failure and again at every later failure of the run, and never before
\* the third: after n consecutive failures it has been issued n - 2 times
\* (n >= 3), 0 times (n < 3).
C3_SafetyIssuedFromThird ==
    \A t \in ThreadIds :
        impl = "ipmitool" =>
            threads[t].safety_calls =
                IF threads[t].consecutive_errors >= max_consecutive_errors
                THEN threads[t].consecutive_errors - max_consecutive_errors + 1
                ELSE 0

\* the fourth consecutive failure has been handled and the fans are at 70%
C3_Witness ==
    \E t \in ThreadIds :
        /\ impl = "ipmitool"
        /\ threads[t].consecutive_errors = max_consecutive_errors + 1
        /\ threads[t].pc = "backoff"
        /\ hw.speed = SafetySpeed * Scale

----------------------------------------------------------------------------
(* Claims about start and stop, checked under SpecMon *)

\* thread t is inside an iteration of the loop: past the test of
\* self.monitoring, before the sleep
InIteration(t) ==
    threads[t].pc \in {"read", "compute", "set", "speed", "callback", "except"}

\* C4: under any interleaving of start, stop and loop steps, at most one
\* monitoring thread is executing loop iterations, so that no two threads
\* call compute() on the same controller.
C4_SingleMonitoringTask ==
    \A t, u \in ThreadIds : (InIteration(t) /\ InIteration(u)) => t = u

\* C10: a stop_temperature_monitoring() called while monitoring whose
\* restore-automatic-control command fails does not raise, in either
\* controller, and leaves monitoring = False and the PID controller in
\* manual mode.
C10_StopNeverRaises ==
    (lastOp = "stop" /\ lastArg = <<"restore_failed">> /\ fg.pc = "idle")
        => (~fg.raised /\ ~ctl.monitoring /\ ~pid.auto_mode)

----------------------------------------------------------------------------
(* Claim about the shutdown of the 'pid' command, checked under SpecCli *)

\* C5: with auto-restore enabled, when the process has ended after the
\* stop_temperature_monitoring() of the finally block (with or without
\* signals before it), the restore-automatic-control command has been
\* issued exactly once.
C5_RestoreIssuedOnce ==
    (cli.pc = "exited" /\ cli.auto_restore /\ lastOp = "stop")
        => hw.restores = 1

----------------------------------------------------------------------------
(* Claims about one monitoring loop and its start and stop, checked under   *)
(* SpecLoop                                                                 *)

\* what a monitoring run consists of: the controller's settings and flags,
\* the PID controller, the monitoring threads and the fans
MonitoringState == <<ctl, pid, threads, hw, faults>>

\* C11: start_temperature_monitoring() called while monitoring, with any
\* arguments, spawns no thread, sends no command and leaves target_temp,
\* monitor_interval, the callback and the PID controller as they are;
\* stop_temperature_monitoring() called while not monitoring sends no
\* command and changes no state.
C11_NoopWhenNotApplicable ==
    [][/\ (StartNoop /\ ctl.monitoring) => UNCHANGED MonitoringState
       /\ (StopNoop /\ ~ctl.monitoring) => UNCHANGED MonitoringState]_vars

\* start was called again while monitoring with the thread running and the
\* default interval in force, which every interval argument differs from
C11_Witness ==
    /\ lastOp = "start"
    /\ lastArg = <<"noop">>
    /\ ctl.monitoring
    /\ Alive(ctl.monitor_thread)
    /\ ctl.monitor_interval = 30
    /\ \A i \in IntervalArgs : i # None => i[1] # ctl.monitor_interval

\* C12: a monitoring thread ends only by finding self.monitoring False at
\* the top of an iteration; whatever step of an iteration raises (the read,
\* set_fan_speed, the callback, the safety call), the thread goes through
\* the except clause and its sleep back to the top of the loop.
C12_LoopLeavesOnlyWhenStopped ==
    [][\A t \in ThreadIds :
           /\ (Alive(t) /\ threads'[t].pc \in {"none", "done"})
                  => (threads[t].pc = "top" /\ ~ctl.monitoring)
           /\ (threads[t].pc = "except" /\ threads'[t].pc # "except")
                  => threads'[t].pc \in {"set", "backoff"}
           /\ (threads[t].pc = "backoff" /\ threads'[t].pc # "backoff")
                  => threads'[t].pc = "top"]_vars

\* the safety call of the third consecutive failure has itself failed, and
\* the thread has begun another iteration
C12_Witness ==
    \E t \in ThreadIds :
        /\ impl = "ipmitool"
        /\ ctl.monitoring
        /\ threads[t].pc = "read"
        /\ threads[t].consecutive_errors = max_consecutive_errors
        /\ threads[t].safety_calls = 1
        /\ hw.speed # SafetySpeed * Scale

\* C13: in the ipmitool loop an iteration whose temperature read failed
\* counts as failed: it goes to the except clause, so it never gets as far
\* as set_fan_speed returning with a speed computed by the PID controller.
\* (The read of thread t failed when current_temp is the fallback 60.0,
\* which no sensor of MonTemps reports.)
C13_FailedReadFailsIteration ==
    \A t \in ThreadIds :
        (/\ impl = "ipmitool"
         /\ DefaultTemp * Scale \notin MonTemps
         /\ threads[t].current_temp = DefaultTemp * Scale)
            => ~(/\ threads[t].pc = "callback"
                 /\ threads[t].consecutive_errors = 0
                 /\ hw.speed = threads[t].fan_speed.val)

\* C15: every fan speed an iteration of the loop passes to set_fan_speed
\* (the safety call aside) is an int within [pid.output_min,
\* pid.output_max], in both controllers, whatever stop_temperature_monitoring
\* does meanwhile.
C15_LoopSpeedWithinLimits ==
    \A t \in ThreadIds :
        (threads[t].pc = "set" /\ threads[t].call = "loop")
            => /\ ~threads[t].fan_speed.is_float
               /\ WithinLimits(threads[t].fan_speed.val, pid)

\* C16: in the ipmitool loop consecutive_errors counts the failed
\* iterations since the last iteration whose set_fan_speed succeeded: the
\* except clause adds exactly one, an iteration that got past set_fan_speed
\* (to the callback) sets it to 0 whether or not the callback raises, and
\* nothing else changes it while the thread runs.
C16_ConsecutiveErrorsCounted ==
    [][\A t \in ThreadIds :
           (impl = "ipmitool" /\ Alive(t)
                /\ threads'[t].pc \notin {"none", "done"}) =>
               threads'[t].consecutive_errors =
                   IF threads[t].pc = "except" /\ threads'[t].pc # "except"
                   THEN threads[t].consecutive_errors + 1
                   ELSE IF threads[t].pc = "callback"
                           /\ threads'[t].pc # "callback"
                   THEN 0
                   ELSE threads[t].consecutive_errors]_vars

\* an iteration with an observer callback has succeeded (the fans run at
\* the speed it set), and the iteration after it has failed and been counted
C16_Witness ==
    \E t \in ThreadIds :
        /\ impl = "ipmitool"
        /\ threads[t].callback
        /\ threads[t].pc = "backoff"
        /\ threads[t].consecutive_errors = 1
        /\ hw.speed > 0
        /\ hw.speed # SafetySpeed * Scale

----------------------------------------------------------------------------
(* Claim about get_highest_temperature, checked under SpecSensors *)

\* C14: in both controllers get_highest_temperature() returns, without
\* raising, the maximum current_temp of the readings, and 60.0 when the
\* list is empty or holds no numeric value.
C14_HighestTemperature ==
    lastOp = "get_highest_temperature" =>
        LET numbers == {hw.sensors[i].current_temp :
                            i \in {j \in DOMAIN hw.sensors :
                                       hw.sensors[j].numeric}}
        IN  /\ lastArg = <<"returned">>
            /\ IF numbers = {} THEN ret = DefaultTemp * Scale
               ELSE ret \in numbers /\ \A x \in numbers : x <= ret

----------------------------------------------------------------------------
(* Claim about set_fan_speed, checked under SpecSet *)

\* a manual-mode or set-speed command, sent with or without success
IsFanCommand(entry) ==
    entry \in {"manual", "manual_failed", "speed", "speed_failed"}

\* C23: a finished set_fan_speed(p) with an int p outside [0, 100] has
\* raised a validation error and sent neither the manual-mode nor the
\* set-speed command; with p in [0, 100] it has sent the manual-mode
\* command before the set-speed command, and when the manual-mode command
\* failed it has sent it once, has not sent the set-speed command and has
\* raised.
C23_SetFanSpeedValidated ==
    (lastOp = "set_fan_speed" /\ fg.pc = "idle" /\ ~fg.percentage.is_float)
        => LET fan_commands == SelectSeq(lastArg, IsFanCommand)
           IN  IF fg.percentage.val < 0 \/ fg.percentage.val > 100 * Scale
               THEN fg.error = "ValueError" /\ fan_commands = <<>>
               ELSE /\ fan_commands \in {<<>>, <<"manual_failed">>,
                                          <<"manual", "speed">>,
                                          <<"manual", "speed_failed">>}
                    /\ fan_commands = <<>> => fg.raised
                    /\ fan_commands = <<"manual_failed">> => fg.raised

----------------------------------------------------------------------------
(* Claim about the commands in flight, checked under SpecFlight *)

\* C24: at most one command to the BMC is in flight at any instant, across
\* the monitoring thread, a stop_temperature_monitoring() whose join timed
\* out, and the cleanup_and_restore() of the signal handler.
C24_OneCommandInFlight == Cardinality(hw.in_flight) <= 1

----------------------------------------------------------------------------
(* Claim about a stop during a sleep of the loop, checked under SpecSleep,  *)
(* where stop_temperature_monitoring() is invoked only while the thread is  *)
(* in a sleep                                                               *)

\* C25: when stop_temperature_monitoring() was invoked while the monitoring
\* thread was in its sleep between iterations or after a failure, the thread
\* has terminated at the step with which stop() returns.
C25_StopInterruptsSleep ==
    [][StopRestore => ~Alive(ctl.monitor_thread)']_vars

----------------------------------------------------------------------------
(* Claim about the end of the monitoring thread, checked under SpecLoopFair, *)
(* where start_temperature_monitoring() starts one thread and cannot start  *)
(* another after the stop                                                   *)

\* C26: once stop_temperature_monitoring() has cleared self.monitoring, the
\* monitoring thread eventually terminates; it begins no further iteration:
\* at the loop top it leaves the loop.
C26_ThreadTerminates ==
    /\ (~ctl.monitoring /\ ctl.monitor_thread # 0)
           ~> (ctl.monitor_thread # 0 /\ ~Alive(ctl.monitor_thread))
    /\ [][\A t \in ThreadIds :
              (~ctl.monitoring /\ threads[t].pc = "top"
                   /\ threads'[t] # threads[t])
                  => threads'[t].pc = "done"]_vars

\* the join timed out on a thread that was in its iteration, and the thread
\* has terminated since, before stop() has sent its command
C26_Witness ==
    /\ ~ctl.monitoring
    /\ fg.pc = "restore"
    /\ lastArg = <<"join_timeout">>
    /\ ctl.monitor_thread # 0
    /\ threads[ctl.monitor_thread].pc = "done"

----------------------------------------------------------------------------
(* Claim about the settings of the fan controller and of its PIDController, *)
(* checked under SpecLoop                                                   *)

\* C27: in every state from the construction of a fan controller on,
\* controller.target_temp equals pid.setpoint and controller.monitor_interval
\* equals pid.sample_time.
C27_SettingsInStep ==
    /\ ctl.target_temp = pid.setpoint
    /\ ctl.monitor_interval = pid.sample_time

----------------------------------------------------------------------------
(* Claim about the commands after a stop, checked under SpecLoop, where the *)
(* monitoring is started once                                               *)

\* stop_temperature_monitoring() has cleared the flag and has returned
StopReturned ==
    /\ ~ctl.monitoring
    /\ ctl.monitor_thread # 0
    /\ fg.pc = "idle"

\* thread t sends the manual-mode command or the set-speed command in this
\* step
SendsFanCommand(t) ==
    \/ /\ threads[t].pc = "set"
       /\ percentage(t).val >= 0
       /\ percentage(t).val <= 100 * Scale
       /\ threads'[t] # threads[t]
       /\ LoopSetManual
    \/ /\ threads[t].pc = "speed"
       /\ ~(impl = "ipmitool" /\ percentage(t).is_float)
       /\ threads'[t] # threads[t]
       /\ LoopSetSpeed

\* C28: once stop_temperature_monitoring() has returned, the monitoring
\* thread sends no manual-mode and no set-speed command, so the command of
\* stop() is the last one to set the fan mode of the hardware.
C28_NoCommandAfterStop ==
    [][StopReturned =>
           /\ \A t \in ThreadIds : ~SendsFanCommand(t)
           /\ hw'.mode = hw.mode]_vars

----------------------------------------------------------------------------
(* Claim about a start that fails, checked under SpecLoop *)

\* C29: when start_temperature_monitoring() fails because the connection
\* test or the manual-mode command raises, no thread is launched, monitoring
\* stays False, and the PIDController is in manual mode as before the call.
C29_FailedStartLeavesManual ==
    [][(Start /\ lastArg' \in {<<"connect_failed">>, <<"manual_failed">>}) =>
           /\ threads' = threads
           /\ ~ctl'.monitoring
           /\ ~pid'.auto_mode
           /\ pid'.auto_mode = pid.auto_mode]_vars

----------------------------------------------------------------------------
(* Claim about the 'pid' command without auto-restore, checked under SpecCli *)

\* C30: with auto-restore disabled (--no-auto-restore) the command sends no
\* set_automatic_control() to the hardware, neither at its end nor when it
\* is interrupted.
C30_NoRestoreWhenDisabled == ~cli.auto_restore => hw.restores = 0

====
